---- MODULE Spec2Model ----
(***************************************************************************)
(* Model of train_models.py: the command line parser, main()'s loop over   *)
(* the three dataset targets and run()'s training loop with its checkpoint *)
(* decision.  The excluded collaborators (get_dataset, get_network, train, *)
(* validate, torch, tensorboardX) are the environment: a call to one of    *)
(* them either raises or returns, and validate returns the two counts      *)
(* 'correct' and 'failed'.                                                 *)
(*                                                                         *)
(* Numbers.  A float that the script only passes on (--split, --ds-rotate, *)
(* the literals 0.0 and 1.0) is kept in hundredths.  An IOU is the         *)
(* quotient correct / (correct + failed); it is kept as the fraction in    *)
(* lowest terms <<numerator, denominator>>, so two quotients are equal     *)
(* exactly when the floats are (the counts are far below 2^53).            *)
(***************************************************************************)
EXTENDS Integers, Sequences, FiniteSets, TLC

\* ------------------------------------------------------------ bounds
\* run() is explored for every args.epochs in 0..MaxEpochs.
MaxEpochs == 12
\* validate() returns correct and failed in 0..MaxCount.
MaxCount == 1
\* Under main() the validation results repeat with this period.
PlanLen == 2

\* -------------------------------------------------- program constants
MainEpochs == 100
SavePeriod == 10
DefaultEpochs == 50
DefaultSplit == 90
DefaultDsRotate == 0
DefaultUseDepth == 1
DefaultUseRgb == 0
DefaultNumWorkers == 8
DefaultBatchSize == 8
DefaultBatchesPerEpoch == 1000
DefaultValBatches == 250
WindowStart == 0
WindowEnd == 100

VARIABLES
    pc,            \* the statement the program is at
    caller,        \* who called run(): "main", or "direct" for a call of run() itself
    argv,          \* the command line: the flags given, each with its text
    args,          \* the argparse Namespace
    todo,          \* main(): the targets the for loop has not yet taken
    save_folder,   \* run()'s save_folder argument
    log_folder,    \* run()'s log_folder argument
    fs,            \* the file system: path -> what is stored there
    tb,            \* the SummaryWriter: tag -> <<scalars written, step of the last>>
    train_dataset, \* the Dataset(...) built for training, <<>> before
    val_dataset,   \* the Dataset(...) built for validation, <<>> before
    net,           \* the network, <<>> before it is instantiated
    optimizer,     \* the optimizer, "" before it is constructed
    epoch,         \* the loop variable of run(), -1 before the first iteration
    best_iou,      \* run()'s best_iou
    test_results,  \* what validate last returned, <<>> before
    iou,           \* run()'s iou, <<>> before the first assignment
    feed,          \* the validation results the environment will deliver
    exc,           \* the exception that ended the program, "" while there is none
    failedAt,      \* history: <<save folder, epoch>> where it was raised, <<>> if none
    setup,         \* history: the construction steps run() has made, in order
    calls,         \* history: per loop step, <<times executed, epoch of the last>>
    runs,          \* history: the arguments of each run() call main() made
    seen,          \* history: the highest IOU of the epochs decided so far
    lastSaved      \* history: <<epoch, iou>> of the last checkpoint, <<>> if none

vars == <<pc, caller, argv, args, todo, save_folder, log_folder, fs, tb,
          train_dataset, val_dataset, net, optimizer, epoch, best_iou,
          test_results, iou, feed, exc, failedAt, setup, calls, runs, seen, lastSaved>>

\* ---------------------------------------------------------- arithmetic
RECURSIVE GCD(_, _)
GCD(a, b) == IF b = 0 THEN a ELSE GCD(b, a % b)

\* correct / (correct + failed) for total > 0, as a fraction in lowest terms.
Quotient(correct, total) ==
    LET g == GCD(correct, total) IN <<correct \div g, total \div g>>

\* The float literal 0.0 as an IOU.
ZeroIou == <<0, 1>>

\* a > b on two IOUs.
Greater(a, b) == a[1] * b[2] > b[1] * a[2]

\* '%02d' % n for n >= 0: at least two digits, zero padded.
Format02d(n) == IF n < 10 THEN "0" \o ToString(n) ELSE ToString(n)

\* '%0.2f' % x for an IOU x: the nearest multiple of 0.01, a tie going to the
\* even one (the conversion rounds the stored double; a tie is a double only
\* when the denominator is a power of two).
Format02f(x) ==
    LET q == (100 * x[1]) \div x[2]
        r == (100 * x[1]) % x[2]
        h == IF 2 * r < x[2] THEN q
             ELSE IF 2 * r > x[2] THEN q + 1
             ELSE IF q % 2 = 0 THEN q ELSE q + 1
    IN  ToString(h \div 100) \o "." \o Format02d(h % 100)

\* ------------------------------------------------------- parse_args
\* The text of a flag's value is a sequence of characters.
DigitValue == ("0" :> 0) @@ ("1" :> 1) @@ ("2" :> 2) @@ ("3" :> 3) @@ ("4" :> 4) @@
              ("5" :> 5) @@ ("6" :> 6) @@ ("7" :> 7) @@ ("8" :> 8) @@ ("9" :> 9)

\* type=str: the text itself.
RECURSIVE ParseStr(_)
ParseStr(text) == IF text = <<>> THEN "" ELSE Head(text) \o ParseStr(Tail(text))

\* type=int on a text of decimal digits.
RECURSIVE ParseInt(_)
ParseInt(text) ==
    IF text = <<>> THEN 0
    ELSE 10 * ParseInt(SubSeq(text, 1, Len(text) - 1)) + DigitValue[text[Len(text)]]

\* type=float on a text 'd.d' or 'd.dd' or 'd', in hundredths.
ParseFloat(text) ==
    LET dots  == {i \in 1..Len(text) : text[i] = "."}
        dot   == IF dots = {} THEN Len(text) + 1 ELSE CHOOSE i \in dots : TRUE
        whole == SubSeq(text, 1, dot - 1)
        frac  == SubSeq(text, dot + 1, Len(text))
        two   == SubSeq(frac \o <<"0", "0">>, 1, 2)
    IN  100 * ParseInt(whole) + ParseInt(two)

\* add_argument(flag, type=str|int|float, default=...): the converted text of
\* the flag when the command line gives it, the default otherwise.
StrArgument(av, flag, default) ==
    IF flag \in DOMAIN av THEN ParseStr(av[flag]) ELSE default
IntArgument(av, flag, default) ==
    IF flag \in DOMAIN av THEN ParseInt(av[flag]) ELSE default
FloatArgument(av, flag, default) ==
    IF flag \in DOMAIN av THEN ParseFloat(av[flag]) ELSE default

\* action='store_true'.
StoreTrue(av, flag) == flag \in DOMAIN av

\* parse_args(): the Namespace for the command line av.
ParseArgs(av) ==
    [network           |-> StrArgument(av, "--network", "ggcnn"),
     dataset           |-> StrArgument(av, "--dataset", ""),
     dataset_path      |-> StrArgument(av, "--dataset-path", ""),
     use_depth         |-> IntArgument(av, "--use-depth", DefaultUseDepth),
     use_rgb           |-> IntArgument(av, "--use-rgb", DefaultUseRgb),
     split             |-> FloatArgument(av, "--split", DefaultSplit),
     ds_rotate         |-> FloatArgument(av, "--ds-rotate", DefaultDsRotate),
     num_workers       |-> IntArgument(av, "--num-workers", DefaultNumWorkers),
     batch_size        |-> IntArgument(av, "--batch-size", DefaultBatchSize),
     epochs            |-> IntArgument(av, "--epochs", DefaultEpochs),
     batches_per_epoch |-> IntArgument(av, "--batches-per-epoch",
                                       DefaultBatchesPerEpoch),
     val_batches       |-> IntArgument(av, "--val-batches", DefaultValBatches),
     description       |-> StrArgument(av, "--description", ""),
     vis               |-> StoreTrue(av, "--vis")]

\* The text of a number n >= 0, as the shell would pass it.
RECURSIVE Digits(_)
Digits(n) ==
    LET d == CHOOSE c \in DOMAIN DigitValue : DigitValue[c] = n % 10
    IN  IF n < 10 THEN <<d>> ELSE Append(Digits(n \div 10), d)


\* ------------------------------------------------------ file system
\* A path is <<folder, name below it>>; <<folder, "">> is the folder itself.
\* What is stored is [kind, made, data]: made is "earlier" for what an earlier
\* execution left behind and "now" for what this execution wrote.
Home == "~"
GMDATA_PATH == Home \o "/Project/gmdata"
DATASET_PATH == GMDATA_PATH \o "/datasets/train_datasets"
INPUT_DATA_PATH == DATASET_PATH \o "/gg_data/small_data"
OUT_PATH == GMDATA_PATH \o "/datasets/models/gg/small_data"

\* Path.joinpath(name).
JoinPath(path, name) == path \o "/" \o name

Dir(made) == [kind |-> "dir", made |-> made, data |-> <<"dir", 0>>]
File(made, data) == [kind |-> "file", made |-> made, data |-> data]

\* Path.exists().
Exists(f, folder) == <<folder, "">> \in DOMAIN f

\* shutil.rmtree(folder): the folder and everything below it are gone.
Rmtree(f, folder) == [p \in {q \in DOMAIN f : q[1] # folder} |-> f[p]]

\* log_folder.mkdir(parents=True) for the 'logs' folder below `folder`.
MkdirLogs(f, folder) ==
    (<<folder, "">> :> (IF Exists(f, folder) THEN f[<<folder, "">>] ELSE Dir("now")))
    @@ (<<folder, "logs">> :> Dir("now")) @@ f

\* Writing a file: whatever was stored at the path is replaced.
WriteFile(f, folder, name, data) == (<<folder, name>> :> File("now", data)) @@ f

\* The names below `folder` that hold a file.
FilesIn(f, folder) == {p[2] : p \in {q \in DOMAIN f : q[1] = folder /\ f[q].kind = "file"}}

\* ------------------------------------------------------------- run()
\* Mutant of LoopBody: validation placed before training.
LoopBodyValidateFirst == <<"validate", "train", "log_validation", "checkpoint">>

\* The statements of run() before the loop, in program order, and the
\* statements of the loop body, in program order.
RunStatements == <<"SummaryWriter", "train_dataset", "val_dataset", "network",
                   "optimizer", "summary", "for">>
LoopBody == <<"train", "validate", "log_validation", "checkpoint">>

\* The statement that follows s in the statement list.
Following(list, s) ==
    LET i == CHOOSE k \in 1..Len(list) : list[k] = s IN list[i + 1]

\* The statement after loop statement s: the next of the body, or the loop
\* header again after the last.
AfterInLoop(s) ==
    IF s = LoopBody[Len(LoopBody)] THEN "for" ELSE Following(LoopBody, s)

\* Mutant of InRange: an inclusive upper end.
InRangeInclusive(i, n) == 0 <= i /\ i <= n

\* range(n) yields i exactly when 0 <= i < n.
InRange(i, n) == 0 <= i /\ i < n

\* Dataset(args.dataset_path, start=0.0, end=args.split, ...), lines 61-63.
TrainDatasetArgs(a) ==
    [path |-> a.dataset_path, start |-> WindowStart, end |-> a.split,
     ds_rotate |-> a.ds_rotate, random_rotate |-> TRUE, random_zoom |-> TRUE,
     include_depth |-> a.use_depth, include_rgb |-> a.use_rgb]

\* Mutant of ValDatasetArgs: the training window pasted into the validation call.
ValDatasetArgsFromZero(a) ==
    [path |-> a.dataset_path, start |-> WindowStart, end |-> a.split,
     ds_rotate |-> a.ds_rotate, random_rotate |-> TRUE, random_zoom |-> TRUE,
     include_depth |-> a.use_depth, include_rgb |-> a.use_rgb]

\* Dataset(args.dataset_path, start=args.split, end=1.0, ...), lines 70-72.
ValDatasetArgs(a) ==
    [path |-> a.dataset_path, start |-> a.split, end |-> WindowEnd,
     ds_rotate |-> a.ds_rotate, random_rotate |-> TRUE, random_zoom |-> TRUE,
     include_depth |-> a.use_depth, include_rgb |-> a.use_rgb]

\* input_channels = 1*args.use_depth + 3*args.use_rgb
InputChannels(a) == 1 * a.use_depth + 3 * a.use_rgb

\* Mutant of ShouldSave: without the periodic checkpoint.
ShouldSaveBestOrFirst(i, best, e) == Greater(i, best) \/ e = 0

\* The condition of the checkpoint, line 126.
ShouldSave(i, best, e) == Greater(i, best) \/ e = 0 \/ (e % SavePeriod) = 0

\* Mutant of NewBest: best_iou never lowered.
KeepHighest(i, best) == IF Greater(i, best) THEN i ELSE best

\* The value best_iou takes when a checkpoint is written, line 130.
NewBest(i, best) == i

\* Mutant of ModelName: the epoch left out of the name.
ModelNameIouOnly(e, i) == "iou_" \o Format02f(i)

\* 'epoch_%02d_iou_%0.2f' % (epoch, iou)
ModelName(e, i) == "epoch_" \o Format02d(e) \o "_iou_" \o Format02f(i)

\* 'epoch_%02d_iou_%0.2f_statedict.pt' % (epoch, iou)
StateDictName(e, i) == "epoch_" \o Format02d(e) \o "_iou_" \o Format02f(i) \o "_statedict.pt"

\* Mutant of Uncaught: main()'s loop catches the exception and goes on.
CaughtByMain == "for_t"

\* Where control is once an exception leaves a statement of run(): neither
\* run() nor main() has a try block, so the exception ends the program.
Uncaught == "raised"

\* The results validate may return: any two counts, or the next of the feed.
Results == [correct : 0..MaxCount, failed : 0..MaxCount]
ValidateReturns(fd, e) == IF fd = <<>> THEN Results ELSE {fd[(e % Len(fd)) + 1]}

NoCalls == [s \in {"train", "validate", "log_validation", "checkpoint"} |-> <<0, -1>>]
NoScalars == [tag \in {"loss/train_loss", "train_loss/*", "loss/IOU",
                       "loss/val_loss", "val_loss/*"} |-> <<0, -1>>]

\* tb.add_scalar(tag, value, step)
AddScalar(w, tag, step) == [w EXCEPT ![tag] = <<@[1] + 1, step>>]

Called(c, s, e) == [c EXCEPT ![s] = <<@[1] + 1, e>>]

mainVars == <<caller, argv, args, todo, save_folder, log_folder, feed, runs>>

\* An exception leaves run().
Raise(name) ==
    /\ pc' = Uncaught
    /\ exc' = name
    /\ failedAt' = <<save_folder, epoch>>

NoRaise == UNCHANGED <<exc, failedAt>>

\* Lines 54-59: tb = tensorboardX.SummaryWriter(log_folder); get_dataset.
RunOpen ==
    /\ pc = "SummaryWriter"
    /\ tb' = NoScalars
    /\ train_dataset' = <<>> /\ val_dataset' = <<>> /\ net' = <<>>
    /\ optimizer' = "" /\ epoch' = -1 /\ best_iou' = <<>>
    /\ test_results' = <<>> /\ iou' = <<>>
    /\ setup' = <<>> /\ calls' = NoCalls /\ seen' = ZeroIou /\ lastSaved' = <<>>
    /\ pc' = Following(RunStatements, "SummaryWriter")
    /\ UNCHANGED <<mainVars, fs, exc, failedAt>>

\* Lines 61-69: the training dataset and its loader.
TrainDataset ==
    /\ pc = "train_dataset"
    /\ train_dataset' = TrainDatasetArgs(args)
    /\ setup' = Append(setup, "train_dataset")
    /\ pc' = Following(RunStatements, "train_dataset")
    /\ UNCHANGED <<mainVars, fs, tb, val_dataset, net, optimizer, epoch, best_iou,
                   test_results, iou, exc, failedAt, calls, seen, lastSaved>>

\* Lines 70-79: the validation dataset and its loader.
ValDataset ==
    /\ pc = "val_dataset"
    /\ val_dataset' = ValDatasetArgs(args)
    /\ setup' = Append(setup, "val_dataset")
    /\ pc' = Following(RunStatements, "val_dataset")
    /\ UNCHANGED <<mainVars, fs, tb, train_dataset, net, optimizer, epoch, best_iou,
                   test_results, iou, exc, failedAt, calls, seen, lastSaved>>

\* Lines 82-88: net = get_network(args.network)(input_channels).to(device).
Network ==
    /\ pc = "network"
    /\ net' = [network |-> args.network, input_channels |-> InputChannels(args),
               device |-> "cuda:0", trained |-> 0]
    /\ setup' = Append(setup, "network")
    /\ pc' = Following(RunStatements, "network")
    /\ UNCHANGED <<mainVars, fs, tb, train_dataset, val_dataset, optimizer, epoch,
                   best_iou, test_results, iou, exc, failedAt, calls, seen, lastSaved>>

\* Line 89: optimizer = optim.Adam(net.parameters()).
Optimizer ==
    /\ pc = "optimizer"
    /\ optimizer' = "Adam"
    /\ setup' = Append(setup, "optimizer")
    /\ pc' = Following(RunStatements, "optimizer")
    /\ UNCHANGED <<mainVars, fs, tb, train_dataset, val_dataset, net, epoch,
                   best_iou, test_results, iou, exc, failedAt, calls, seen, lastSaved>>

\* Lines 93-100: the architecture summary goes to arch.txt; best_iou = 0.0.
ArchSummary ==
    /\ pc = "summary"
    /\ fs' = WriteFile(fs, save_folder, "arch.txt", <<"summary", net.input_channels>>)
    /\ best_iou' = ZeroIou
    /\ setup' = Append(setup, "summary")
    /\ pc' = Following(RunStatements, "summary")
    /\ UNCHANGED <<mainVars, tb, train_dataset, val_dataset, net, optimizer, epoch,
                   test_results, iou, exc, failedAt, calls, seen, lastSaved>>

\* Line 101: for epoch in range(args.epochs). When the range is exhausted
\* run() returns to its caller.
ForEpoch ==
    /\ pc = "for"
    /\ \/ /\ InRange(epoch + 1, args.epochs)
          /\ epoch' = epoch + 1
          /\ pc' = LoopBody[1]
       \/ /\ ~InRange(epoch + 1, args.epochs)
          /\ epoch' = epoch
          /\ pc' = IF caller = "main" THEN "for_t" ELSE "returned"
    /\ UNCHANGED <<mainVars, fs, tb, train_dataset, val_dataset, net, optimizer,
                   best_iou, test_results, iou, exc, failedAt, setup, calls, seen, lastSaved>>

\* Lines 102-109: train(epoch, ...) and its scalars.
Train ==
    /\ pc = "train"
    /\ \/ /\ net' = [net EXCEPT !.trained = @ + 1]
          /\ tb' = AddScalar(AddScalar(tb, "loss/train_loss", epoch), "train_loss/*", epoch)
          /\ calls' = Called(calls, "train", epoch)
          /\ pc' = AfterInLoop("train")
          /\ NoRaise
       \/ /\ Raise("train")
          /\ UNCHANGED <<net, tb, calls>>
    /\ UNCHANGED <<mainVars, fs, train_dataset, val_dataset, optimizer, epoch,
                   best_iou, test_results, iou, setup, seen, lastSaved>>

\* Lines 112-115: validate(...) and the logging.info of correct/(correct+failed).
Validate ==
    /\ pc = "validate"
    /\ \/ \E r \in ValidateReturns(feed, epoch) :
             /\ test_results' = r
             /\ calls' = Called(calls, "validate", epoch)
             /\ \/ /\ r.correct + r.failed # 0
                   /\ pc' = AfterInLoop("validate")
                   /\ NoRaise
                \/ /\ r.correct + r.failed = 0
                   /\ Raise("ZeroDivisionError")
       \/ /\ Raise("validate")
          /\ UNCHANGED <<test_results, calls>>
    /\ UNCHANGED <<mainVars, fs, tb, train_dataset, val_dataset, net, optimizer,
                   epoch, best_iou, iou, setup, seen, lastSaved>>

\* Lines 118-122: the validation scalars.
LogValidation ==
    /\ pc = "log_validation"
    /\ tb' = AddScalar(AddScalar(AddScalar(tb, "loss/IOU", epoch),
                                 "loss/val_loss", epoch), "val_loss/*", epoch)
    /\ calls' = Called(calls, "log_validation", epoch)
    /\ pc' = AfterInLoop("log_validation")
    /\ UNCHANGED <<mainVars, fs, train_dataset, val_dataset, net, optimizer, epoch,
                   best_iou, test_results, iou, exc, failedAt, setup, seen, lastSaved>>

\* Lines 125-130: the checkpoint decision.
Checkpoint ==
    /\ pc = "checkpoint"
    /\ LET i == Quotient(test_results.correct, test_results.correct + test_results.failed)
       IN  /\ iou' = i
           /\ \/ /\ ShouldSave(i, best_iou, epoch)
                 /\ fs' = WriteFile(WriteFile(fs, save_folder, ModelName(epoch, i),
                                              <<"model", net.trained>>),
                                    save_folder, StateDictName(epoch, i),
                                    <<"state_dict", net.trained>>)
                 /\ best_iou' = NewBest(i, best_iou)
                 /\ lastSaved' = <<epoch, i>>
              \/ /\ ~ShouldSave(i, best_iou, epoch)
                 /\ UNCHANGED <<fs, best_iou, lastSaved>>
           /\ seen' = IF Greater(i, seen) THEN i ELSE seen
    /\ calls' = Called(calls, "checkpoint", epoch)
    /\ pc' = AfterInLoop("checkpoint")
    /\ UNCHANGED <<mainVars, tb, train_dataset, val_dataset, net, optimizer, epoch,
                   test_results, exc, failedAt, setup>>

RunStep ==
    \/ RunOpen \/ TrainDataset \/ ValDataset \/ Network \/ Optimizer \/ ArchSummary
    \/ ForEpoch \/ Train \/ Validate \/ LogValidation \/ Checkpoint

\* ------------------------------------------------------------ main()
\* 'gmd cor jaq'.split()
Targets == <<"gmd", "cor", "jaq">>

\* Mutant of DatasetFor: the target compared with the dataset's name.
DatasetForCornell(t) == IF t = "cornell" THEN "cornell" ELSE "jacquard"

\* Lines 144-147: the dataset name of target t.
DatasetFor(t) == IF t = "cor" THEN "cornell" ELSE "jacquard"

\* Lines 140-142: parse_args(), then the two overrides.
MainStart ==
    /\ pc = "main"
    /\ args' = [ParseArgs(argv) EXCEPT !.network = "ggcnn", !.epochs = MainEpochs]
    /\ todo' = Targets
    /\ pc' = "for_t"
    /\ UNCHANGED <<caller, argv, save_folder, log_folder, fs, tb, train_dataset,
                   val_dataset, net, optimizer, epoch, best_iou, test_results, iou,
                   feed, exc, failedAt, setup, calls, runs, seen, lastSaved>>

\* Lines 143-156: the next target t: its arguments, its folders, run().
MainTarget ==
    /\ pc = "for_t"
    /\ todo # <<>>
    /\ LET t      == Head(todo)
           folder == JoinPath(OUT_PATH, t)
           a      == [args EXCEPT !.dataset = DatasetFor(t),
                                  !.description = "train " \o t,
                                  !.dataset_path = JoinPath(INPUT_DATA_PATH, t)]
       IN  /\ args' = a
           /\ save_folder' = folder
           /\ log_folder' = JoinPath(folder, "logs")
           /\ fs' = MkdirLogs(IF Exists(fs, folder) THEN Rmtree(fs, folder) ELSE fs, folder)
           /\ runs' = Append(runs, [t |-> t, args |-> a, save_folder |-> folder])
    /\ todo' = Tail(todo)
    /\ pc' = RunStatements[1]
    /\ UNCHANGED <<caller, argv, tb, train_dataset, val_dataset, net, optimizer,
                   epoch, best_iou, test_results, iou, feed, exc, failedAt, setup, calls,
                   seen, lastSaved>>

\* Line 143 with no target left: main() returns and the program ends.
MainExit ==
    /\ pc = "for_t"
    /\ todo = <<>>
    /\ pc' = "exit"
    /\ UNCHANGED <<caller, argv, args, todo, save_folder, log_folder, fs, tb,
                   train_dataset, val_dataset, net, optimizer, epoch, best_iou,
                   test_results, iou, feed, exc, failedAt, setup, calls, runs, seen, lastSaved>>

\* ------------------------------------------------------ initial states
EmptyFs == [p \in {} |-> Dir("now")]
NoFlags == [f \in {} |-> <<>>]

\* What an earlier execution left in a save folder.
LeftBehind(folder) ==
    (<<folder, "">> :> Dir("earlier")) @@ (<<folder, "logs">> :> Dir("earlier"))
    @@ (<<folder, "arch.txt">> :> File("earlier", <<"summary", 1>>))
    @@ (<<folder, "epoch_00_iou_0.50">> :> File("earlier", <<"model", 1>>))
    @@ (<<folder, "epoch_00_iou_0.50_statedict.pt">> :> File("earlier", <<"state_dict", 1>>))
    @@ (<<folder, "epoch_07_iou_0.90">> :> File("earlier", <<"model", 8>>))
    @@ (<<folder, "epoch_07_iou_0.90_statedict.pt">> :> File("earlier", <<"state_dict", 8>>))

RECURSIVE LeftBehindAll(_)
LeftBehindAll(ts) ==
    IF ts = {} THEN EmptyFs
    ELSE LET t == CHOOSE x \in ts : TRUE
         IN  LeftBehind(JoinPath(OUT_PATH, t)) @@ LeftBehindAll(ts \ {t})

\* The file systems main() may start on: each target's folder absent or left
\* behind by an earlier execution.
InitialFileSystems == {LeftBehindAll(ts) : ts \in {{}, {"cor"}, {"gmd", "cor", "jaq"}}}

\* Flags about the data and the network, as a user may give them.
DataFlags ==
    ("--split" :> <<"0", ".", "5">>) @@ ("--ds-rotate" :> <<"0", ".", "2", "5">>)
    @@ ("--use-depth" :> <<"0">>) @@ ("--use-rgb" :> <<"1">>)
NameFlags ==
    ("--network" :> <<"g", "g", "c", "n", "n", "2">>)
    @@ ("--dataset" :> <<"c", "o", "r", "n", "e", "l", "l">>)
    @@ ("--dataset-path" :> <<"/", "d", "a", "t", "a">>)

\* The command lines main() is explored on.
MainArgvs ==
    {NoFlags, NameFlags, ("--epochs" :> <<"7">>) @@ DataFlags,
     ("--epochs" :> <<"7">>) @@ NameFlags @@ DataFlags}

\* The command lines whose Namespace run() is called with directly.
SplitTexts == {<<"0">>, <<"0", ".", "2", "5">>, <<"1">>, <<"1", ".", "5">>}
RunArgvs ==
    {("--epochs" :> Digits(n)) : n \in 0..MaxEpochs}
    \cup {("--epochs" :> <<"2">>) @@ NameFlags @@ DataFlags}
    \cup {("--epochs" :> <<"1">>) @@ ("--split" :> text) : text \in SplitTexts}

\* The validation results delivered under main(): a short cycle of results.
FeedResults == {[correct |-> 1, failed |-> 1], [correct |-> 1, failed |-> 0],
                [correct |-> 0, failed |-> 0]}
Feeds == [1..PlanLen -> FeedResults]

Locals ==
    /\ tb = NoScalars
    /\ train_dataset = <<>> /\ val_dataset = <<>> /\ net = <<>>
    /\ optimizer = "" /\ epoch = -1 /\ best_iou = <<>>
    /\ test_results = <<>> /\ iou = <<>>
    /\ exc = "" /\ failedAt = <<>>
    /\ setup = <<>> /\ calls = NoCalls /\ seen = ZeroIou /\ lastSaved = <<>>

\* The program started from the command line.
Init ==
    /\ pc = "main"
    /\ caller = "main"
    /\ argv \in MainArgvs
    /\ args = ParseArgs(NoFlags)
    /\ todo = <<>>
    /\ save_folder = "" /\ log_folder = ""
    /\ fs \in InitialFileSystems
    /\ feed \in Feeds
    /\ runs = <<>>
    /\ Locals

Next == MainStart \/ MainTarget \/ MainExit \/ RunStep

Spec == Init /\ [][Next]_vars

\* run() called on its own, on a fresh save folder, with the Namespace of a
\* command line and any validation results.
RunInit ==
    /\ pc = RunStatements[1]
    /\ caller = "direct"
    /\ argv \in RunArgvs
    /\ args = ParseArgs(argv)
    /\ todo = <<>>
    /\ save_folder = JoinPath(OUT_PATH, "gmd")
    /\ log_folder = JoinPath(JoinPath(OUT_PATH, "gmd"), "logs")
    /\ fs = MkdirLogs(EmptyFs, JoinPath(OUT_PATH, "gmd"))
    /\ feed = <<>>
    /\ runs = <<>>
    /\ Locals

RunSpec == RunInit /\ [][RunStep]_vars

\* ------------------------------------------------------------ claims
\* The checkpoint files (everything but arch.txt) in run()'s save folder.
Checkpoints(f) == FilesIn(f, save_folder) \ {"arch.txt"}

\* C1: an epoch that reaches the checkpoint decision writes a checkpoint if
\* and only if its IOU is above best_iou, or it is epoch 0, or its index is
\* divisible by 10.
C1_SavedIffCondition ==
    [][pc = "checkpoint" =>
        LET i == Quotient(test_results.correct, test_results.correct + test_results.failed)
        IN  (Checkpoints(fs') # Checkpoints(fs))
            <=> (Greater(i, best_iou) \/ epoch = 0 \/ epoch % 10 = 0)]_vars

\* C1 witness: twelve decisions made; only epochs 0 and 10 wrote a checkpoint,
\* epoch 10 without being a new best.
C1_Witness ==
    /\ pc = "for" /\ calls["checkpoint"] = <<12, 11>>
    /\ Cardinality(Checkpoints(fs)) = 4
    /\ lastSaved # <<>> /\ lastSaved[1] = 10
    /\ Greater(seen, lastSaved[2])

\* C2 (as claimed): at every checkpoint decision best_iou is the highest IOU of
\* the earlier epochs of the run (0.0 before the first), hence never lowered.
C2_BestIsHighestSoFar == pc = "checkpoint" => best_iou = seen

\* C3 (as claimed): every run() call gets the network, dataset, dataset path
\* and epochs that the command line gives (or the declared defaults).
C3_FlagsConfigureRun ==
    \A k \in 1..Len(runs) :
        /\ runs[k].args.network = ParseArgs(argv).network
        /\ runs[k].args.dataset = ParseArgs(argv).dataset
        /\ runs[k].args.dataset_path = ParseArgs(argv).dataset_path
        /\ runs[k].args.epochs = ParseArgs(argv).epochs

\* C4: run() builds the training dataset, the validation dataset, the network,
\* the optimizer and the architecture file in this order before the first
\* epoch; in every epoch train precedes validate, validate precedes the
\* validation scalars, these precede the checkpoint decision, and an epoch
\* starts only after the decision of the one before.
C4_StepOrder ==
    LET order == <<"train_dataset", "val_dataset", "network", "optimizer", "summary">>
        n(s)  == calls[s][1]
    IN  /\ Len(setup) <= 5 /\ setup = SubSeq(order, 1, Len(setup))
        /\ val_dataset # <<>> => train_dataset # <<>>
        /\ net # <<>> => val_dataset # <<>>
        /\ optimizer # "" => net # <<>>
        /\ "arch.txt" \in FilesIn(fs, save_folder) => optimizer # ""
        /\ (epoch >= 0 \/ \E s \in DOMAIN calls : n(s) > 0)
              => setup = order /\ "arch.txt" \in FilesIn(fs, save_folder)
        /\ n("checkpoint") <= n("log_validation")
        /\ n("log_validation") <= n("validate")
        /\ n("validate") <= n("train")
        /\ n("train") <= n("checkpoint") + 1
        /\ \A s \in DOMAIN calls : calls[s][2] = n(s) - 1 /\ calls[s][2] <= epoch
        /\ tb["loss/IOU"] = calls["log_validation"]
        /\ tb["loss/val_loss"] = calls["log_validation"]

\* C4 witness: the second epoch has trained, validated and logged, and is at
\* its checkpoint decision.
C4_Witness ==
    /\ pc = "checkpoint" /\ epoch = 1
    /\ calls["log_validation"] = <<2, 1>> /\ calls["checkpoint"] = <<1, 0>>

\* C5: a checkpoint is two new files, 'epoch_<EE>_iou_<I.II>' and the same
\* name with '_statedict.pt', EE the epoch in at least two digits and I.II the
\* epoch's IOU to the nearest hundredth; writing it replaces no file that was
\* there, so no two epochs of a run share a checkpoint name.
C5_CheckpointFiles ==
    [][pc = "checkpoint" =>
        LET new     == DOMAIN fs' \ DOMAIN fs
            c       == test_results.correct
            t       == test_results.correct + test_results.failed
            ee      == IF epoch < 10 THEN "0" \o ToString(epoch) ELSE ToString(epoch)
            Two(k)  == IF k < 10 THEN "0" \o ToString(k) ELSE ToString(k)
            Name(h) == "epoch_" \o ee \o "_iou_" \o ToString(h \div 100) \o "." \o Two(h % 100)
        IN  /\ \A p \in DOMAIN fs : p \in DOMAIN fs' /\ fs'[p] = fs[p]
            /\ new # {} =>
                 \E h \in 0..100 :
                    /\ 2 * (100 * c - h * t) <= t
                    /\ 2 * (h * t - 100 * c) <= t
                    /\ new = {<<save_folder, Name(h)>>,
                              <<save_folder, Name(h) \o "_statedict.pt">>}
                    /\ fs'[<<save_folder, Name(h)>>].data = <<"model", epoch + 1>>
                    /\ fs'[<<save_folder, Name(h) \o "_statedict.pt">>].data
                          = <<"state_dict", epoch + 1>>]_vars

\* C5 witness: the checkpoints of epoch 0 and of epoch 10, with the same IOU,
\* are four different files.
C5_Witness ==
    {"epoch_00_iou_0.50", "epoch_00_iou_0.50_statedict.pt",
     "epoch_10_iou_0.50", "epoch_10_iou_0.50_statedict.pt"} \subseteq Checkpoints(fs)

\* C6: once a step has failed in epoch e of target t the program has ended:
\* no checkpoint of epoch e or later is in t's folder, no step has run again,
\* and no target after t has been started.
C6_NoRecovery ==
    exc # "" =>
        LET folder == failedAt[1]
            e      == failedAt[2]
            later  == {ModelName(k, i) : k \in e..(MainEpochs - 1), i \in {<<1, 2>>, <<1, 1>>}}
                      \cup {StateDictName(k, i) : k \in e..(MainEpochs - 1), i \in {<<1, 2>>, <<1, 1>>}}
        IN  /\ pc = "raised" /\ ~ENABLED Next
            /\ save_folder = folder /\ epoch = e
            /\ runs[Len(runs)].save_folder = folder
            /\ Len(runs) + Len(todo) = 3
            /\ \A k \in 1..Len(todo) :
                  \A p \in DOMAIN fs : p[1] = JoinPath(OUT_PATH, todo[k]) => fs[p].made = "earlier"
            /\ FilesIn(fs, folder) \cap later = {}
            /\ lastSaved # <<>> => lastSaved[1] < e
            /\ calls["train"][1] <= e + 1
            /\ calls["validate"][1] <= e + 1
            /\ calls["checkpoint"][1] = e

\* C6 witness: validate raised in epoch 10 of the second target, after
\* checkpoints of earlier epochs were written.
C6_Witness ==
    /\ exc = "validate" /\ Len(runs) = 2 /\ epoch = 10 /\ lastSaved # <<>>

\* C7: main() calls run() for 'gmd', 'cor', 'jaq' in this order, once each,
\* with dataset 'cornell' for 'cor' and 'jacquard' otherwise; when run() starts
\* its save folder holds nothing but the freshly made 'logs' folder.
C7_TargetsAndFolders ==
    /\ Len(runs) <= 3
    /\ \A k \in 1..Len(runs) :
          /\ runs[k].t = <<"gmd", "cor", "jaq">>[k]
          /\ runs[k].args.dataset = (IF k = 2 THEN "cornell" ELSE "jacquard")
          /\ runs[k].save_folder = OUT_PATH \o "/" \o runs[k].t
    /\ pc = "exit" => Len(runs) = 3
    /\ pc = "SummaryWriter" =>
          /\ {p \in DOMAIN fs : p[1] = save_folder}
                = {<<save_folder, "">>, <<save_folder, "logs">>}
          /\ \A p \in DOMAIN fs : p[1] = save_folder => fs[p] = Dir("now")
          /\ save_folder = runs[Len(runs)].save_folder

\* C7 witness: run() starts for 'cor' while the folder an earlier execution
\* left for 'jaq' is still there: 'cor' had such a folder too, and it is gone.
C7_Witness ==
    /\ pc = "SummaryWriter" /\ Len(runs) = 2
    /\ Exists(fs, JoinPath(OUT_PATH, "jaq"))
    /\ fs[<<JoinPath(OUT_PATH, "jaq"), "">>].made = "earlier"

\* run() is over: it returned, or an exception left it.
Ended == pc \in {"returned", "raised"}

\* Every epoch of range(args.epochs) was trained, validated, logged and
\* decided once, in increasing order, and epoch 0 left a checkpoint.
Complete ==
    /\ \A s \in DOMAIN calls : calls[s] = <<args.epochs, args.epochs - 1>>
    /\ net.trained = args.epochs
    /\ args.epochs >= 1 =>
          \E r \in Results :
             /\ r.correct + r.failed > 0
             /\ ModelName(0, Quotient(r.correct, r.correct + r.failed)) \in Checkpoints(fs)
    /\ args.epochs = 0 => Checkpoints(fs) = {} /\ calls = NoCalls

C9_SplitWindows ==
    val_dataset # <<>> =>
        /\ train_dataset.start = 0 /\ train_dataset.end = args.split
        /\ val_dataset.start = args.split /\ val_dataset.end = 100
        /\ train_dataset.end = val_dataset.start
        /\ train_dataset.ds_rotate = args.ds_rotate
        /\ val_dataset.ds_rotate = args.ds_rotate
        /\ train_dataset.include_depth = args.use_depth
        /\ val_dataset.include_depth = args.use_depth
        /\ train_dataset.include_rgb = args.use_rgb
        /\ val_dataset.include_rgb = args.use_rgb
        /\ train_dataset.path = args.dataset_path
        /\ val_dataset.path = args.dataset_path
        /\ args.split = ParseArgs(argv).split

\* C9 witness: both datasets built for --split 0.5 --ds-rotate 0.25 with RGB
\* and without depth.
C9_Witness ==
    /\ val_dataset # <<>> /\ args.split = 50 /\ args.ds_rotate = 25
    /\ args.use_depth = 0 /\ args.use_rgb = 1

\* C10: before the first checkpoint best_iou is 0.0; after every completed
\* epoch it is the IOU of the last checkpoint written; and it changes only in
\* a step that writes a checkpoint.
C10_BestIsLastSaved ==
    /\ [](best_iou # <<>> =>
            /\ lastSaved = <<>> => best_iou = ZeroIou
            /\ lastSaved # <<>> => best_iou = lastSaved[2]
            /\ (pc = "for" /\ epoch >= 0) => lastSaved # <<>>)
    /\ [][(best_iou # <<>> /\ best_iou' # best_iou)
             => Checkpoints(fs') # Checkpoints(fs)]_vars

\* C10 witness: epoch 10 is complete and best_iou, the IOU of its checkpoint,
\* is below the highest IOU seen.
C10_Witness ==
    /\ pc = "for" /\ epoch = 10 /\ lastSaved = <<10, best_iou>>
    /\ Greater(seen, best_iou)

====
